---- MODULE Spec2Model ----
(***************************************************************************)
(* A model of ken-matsui/ghcr: Ghcr::upload_oci_image (src/src/ghcr.rs),   *)
(* the OCI image-layout writer (src/src/oci/image.rs) and the schema gate  *)
(* (src/src/oci/schema.rs).                                                *)
(*                                                                         *)
(* Text is modelled byte by byte: a string or a file's content is a        *)
(* sequence of one-character strings.  A path is a sequence of components, *)
(* relative to the current directory.  One upload attempt is one process   *)
(* whose position is pc; every external call (subprocess, filesystem,      *)
(* schema fetch, schema validation) is one step whose outcome is chosen by *)
(* the environment.                                                        *)
(***************************************************************************)
EXTENDS Integers, Sequences, FiniteSets, TLC

(***************************************************************************)
(* Bounds of the model.                                                    *)
(***************************************************************************)
\* longest image name tried
MaxNameLen == 1

\* longest version tag tried
MaxVersionLen == 2

\* hex digits kept of a digest (SHA-256 has 64; the model keeps a short one)
DigestHexLen == 4

(***************************************************************************)
(* String constants of the source, as character sequences.                 *)
(***************************************************************************)
GITHUB_PACKAGE_TYPE ==
    <<"c","o","n","t","a","i","n","e","r">>

ORG ==
    <<"k","e","n","-","m","a","t","s","u","i">>

TARGET_FILE ==
    <<"/","t","m","p","/","a","r","c","h","i","v","e",".","t","a","r",".","g","z">>

ARCH ==
    <<"a","m","d","6","4">>

OS ==
    <<"l","i","n","u","x">>

SHA256_PREFIX ==
    <<"s","h","a","2","5","6",":">>

OCI_LAYOUT ==
    <<"o","c","i","-","l","a","y","o","u","t">>

INDEX_JSON ==
    <<"i","n","d","e","x",".","j","s","o","n">>

BLOBS ==
    <<"b","l","o","b","s">>

SHA256_DIR ==
    <<"s","h","a","2","5","6">>

LAYOUT_VERSION ==
    <<"1",".","0",".","0">>

MT_CONFIG ==
    <<"a","p","p","l","i","c","a","t","i","o","n","/","v","n","d",".","o","c","i",".","i","m","a","g","e",".","c","o","n","f","i","g",".","v","1","+","j","s","o","n">>

MT_LAYER ==
    <<"a","p","p","l","i","c","a","t","i","o","n","/","v","n","d",".","o","c","i",".","i","m","a","g","e",".","l","a","y","e","r",".","v","1",".","t","a","r","+","g","z","i","p">>

MT_MANIFEST ==
    <<"a","p","p","l","i","c","a","t","i","o","n","/","v","n","d",".","o","c","i",".","i","m","a","g","e",".","m","a","n","i","f","e","s","t",".","v","1","+","j","s","o","n">>

MT_INDEX ==
    <<"a","p","p","l","i","c","a","t","i","o","n","/","v","n","d",".","o","c","i",".","i","m","a","g","e",".","i","n","d","e","x",".","v","1","+","j","s","o","n">>

K_imageLayoutVersion ==
    <<"i","m","a","g","e","L","a","y","o","u","t","V","e","r","s","i","o","n">>

K_architecture ==
    <<"a","r","c","h","i","t","e","c","t","u","r","e">>

K_os ==
    <<"o","s">>

K_rootfs ==
    <<"r","o","o","t","f","s">>

K_type ==
    <<"t","y","p","e">>

K_layers ==
    <<"l","a","y","e","r","s">>

K_diff_ids ==
    <<"d","i","f","f","_","i","d","s">>

K_schemaVersion ==
    <<"s","c","h","e","m","a","V","e","r","s","i","o","n">>

K_config ==
    <<"c","o","n","f","i","g">>

K_mediaType ==
    <<"m","e","d","i","a","T","y","p","e">>

K_digest ==
    <<"d","i","g","e","s","t">>

K_size ==
    <<"s","i","z","e">>

K_annotations ==
    <<"a","n","n","o","t","a","t","i","o","n","s">>

K_manifests ==
    <<"m","a","n","i","f","e","s","t","s">>

K_platform ==
    <<"p","l","a","t","f","o","r","m">>

A_package_type ==
    <<"c","o","m",".","g","i","t","h","u","b",".","p","a","c","k","a","g","e",".","t","y","p","e">>

A_ref_name ==
    <<"o","r","g",".","o","p","e","n","c","o","n","t","a","i","n","e","r","s",".","i","m","a","g","e",".","r","e","f",".","n","a","m","e">>

A_title ==
    <<"o","r","g",".","o","p","e","n","c","o","n","t","a","i","n","e","r","s",".","i","m","a","g","e",".","t","i","t","l","e">>

A_vendor ==
    <<"o","r","g",".","o","p","e","n","c","o","n","t","a","i","n","e","r","s",".","i","m","a","g","e",".","v","e","n","d","o","r">>

A_version ==
    <<"o","r","g",".","o","p","e","n","c","o","n","t","a","i","n","e","r","s",".","i","m","a","g","e",".","v","e","r","s","i","o","n">>

ROOTFS_TYPE ==
    <<"l","a","y","e","r","s">>

GZIP_MAGIC ==
    <<"G","z">>

DIR_SEPARATOR ==
    <<"-","-">>

HEXLOWER_DIGITS ==
    <<"0","1","2","3","4","5","6","7","8","9","a","b","c","d","e","f">>

HEXUPPER_DIGITS ==
    <<"0","1","2","3","4","5","6","7","8","9","A","B","C","D","E","F">>

DEC_DIGITS ==
    <<"0","1","2","3","4","5","6","7","8","9">>

ASCII_PRINTABLE ==
    <<" ","!","\"","#","$","%","&","'","(",")","*","+",",","-",".","/","0","1","2","3","4","5","6","7","8","9",":",";","<","=",">","?","@","A","B","C","D","E","F","G","H","I","J","K","L","M","N","O","P","Q","R","S","T","U","V","W","X","Y","Z","[","\\","]","^","_","","a","b","c","d","e","f","g","h","i","j","k","l","m","n","o","p","q","r","s","t","u","v","w","x","y","z","{","|","}","~">>

(***************************************************************************)
(* Schema URIs (src/src/oci/schema.rs).  They are only map keys.           *)
(***************************************************************************)
IMAGE_CONFIG_SCHEMA_URI == "https://opencontainers.org/schema/image/config"

IMAGE_INDEX_SCHEMA_URI == "https://opencontainers.org/schema/image/index"

IMAGE_LAYOUT_SCHEMA_URI == "https://opencontainers.org/schema/image/layout"

IMAGE_MANIFEST_SCHEMA_URI == "https://opencontainers.org/schema/image/manifest"

(***************************************************************************)
(* Generic helpers on sequences.                                           *)
(***************************************************************************)
Range(s) == {s[i] : i \in 1..Len(s)}

Front(s) == SubSeq(s, 1, Len(s) - 1)

Last(s) == s[Len(s)]

IsPrefix(p, s) == Len(p) <= Len(s) /\ SubSeq(s, 1, Len(p)) = p

\* all sequences over alphabet A of length lo..hi
RECURSIVE SeqsOfLen(_, _)
SeqsOfLen(A, n) ==
    IF n = 0 THEN {<<>>}
    ELSE {Append(s, c) : s \in SeqsOfLen(A, n - 1), c \in A}

SeqsBetween(A, lo, hi) == UNION {SeqsOfLen(A, n) : n \in lo..hi}

RECURSIVE Concat(_)
Concat(ss) ==
    IF ss = <<>> THEN <<>>
    ELSE IF Len(ss) = 1 THEN ss[1]
    ELSE Concat(SubSeq(ss, 1, Len(ss) \div 2))
             \o Concat(SubSeq(ss, Len(ss) \div 2 + 1, Len(ss)))

(***************************************************************************)
(* serde_json::Value, as a tagged tree, and the json! documents.           *)
(* An object is the sequence of its <<key, value>> members in the order    *)
(* serde_json's map (sorted by key) serializes them.                       *)
(***************************************************************************)
JStr(s) == [t |-> "str", v |-> s]

JNum(n) == [t |-> "num", v |-> n]

JArr(es) == [t |-> "arr", v |-> es]

JObj(ms) == [t |-> "obj", v |-> ms]

\* a member of an object, by key
Get(obj, key) == (CHOOSE i \in 1..Len(obj.v) : obj.v[i][1] = key) 

Field(obj, key) == obj.v[Get(obj, key)][2]

HasField(obj, key) == \E i \in 1..Len(obj.v) : obj.v[i][1] = key

(***************************************************************************)
(* serde_json::to_string_pretty: two-space indentation, one member or      *)
(* element per line, "[]" and "{}" for the empty containers.               *)
(***************************************************************************)
RECURSIVE Decimal(_)
Decimal(n) ==
    IF n < 10 THEN <<DEC_DIGITS[n + 1]>>
    ELSE Append(Decimal(n \div 10), DEC_DIGITS[(n % 10) + 1])

Quote(s) == <<"\"">> \o s \o <<"\"">>

Indent(n) == [i \in 1..(2 * n) |-> " "]

RECURSIVE to_string_pretty_at(_, _)
to_string_pretty_at(value, depth) ==
    CASE value.t = "str" -> Quote(value.v)
      [] value.t = "num" -> Decimal(value.v)
      [] value.t = "arr" ->
            IF value.v = <<>> THEN <<"[", "]">>
            ELSE <<"[", "\n">>
                 \o Concat([i \in 1..Len(value.v) |->
                        Indent(depth + 1)
                        \o to_string_pretty_at(value.v[i], depth + 1)
                        \o (IF i < Len(value.v) THEN <<",">> ELSE <<>>)
                        \o <<"\n">>])
                 \o Indent(depth) \o <<"]">>
      [] value.t = "obj" ->
            IF value.v = <<>> THEN <<"{", "}">>
            ELSE <<"{", "\n">>
                 \o Concat([i \in 1..Len(value.v) |->
                        Indent(depth + 1)
                        \o Quote(value.v[i][1]) \o <<":", " ">>
                        \o to_string_pretty_at(value.v[i][2], depth + 1)
                        \o (IF i < Len(value.v) THEN <<",">> ELSE <<>>)
                        \o <<"\n">>])
                 \o Indent(depth) \o <<"}">>

to_string_pretty(value) == to_string_pretty_at(value, 0)

(***************************************************************************)
(* Digests.  SHA-256 is library code; the model keeps a deterministic hash *)
(* of the bytes onto DigestHexLen hex digits, computed over a balanced     *)
(* tree of the input (a node mixes its halves non-linearly).  Ord gives a  *)
(* character's ASCII code: ASCII_PRINTABLE lists the codes 32..126 (the    *)
(* slot of the backquote, which a TLA+ string cannot hold, is kept empty). *)
(***************************************************************************)
Ord ==
    [c \in Range(ASCII_PRINTABLE) \cup {"\n"} |->
        IF c = "\n" THEN 10
        ELSE 31 + (CHOOSE i \in 1..Len(ASCII_PRINTABLE) : ASCII_PRINTABLE[i] = c)]

RECURSIVE Pow(_, _)
Pow(b, e) == IF e = 0 THEN 1 ELSE b * Pow(b, e - 1)

DigestModulus == Pow(16, DigestHexLen)

RECURSIVE TreeHashAt(_, _, _)
TreeHashAt(bytes, lo, hi) ==
    IF lo > hi THEN 40503 % DigestModulus
    ELSE IF lo = hi THEN (Ord[bytes[lo]] * 167 + 13) % DigestModulus
    ELSE LET left == TreeHashAt(bytes, lo, (lo + hi) \div 2)
             right == TreeHashAt(bytes, (lo + hi) \div 2 + 1, hi)
         IN (left * ((right % 251) + 2) + right * 17 + (hi - lo + 1)) % DigestModulus

TreeHash(bytes) == TreeHashAt(bytes, 1, Len(bytes))

\* the digest as DigestHexLen nibbles, most significant first
Sha256(bytes) ==
    LET h == TreeHash(bytes)
    IN [i \in 1..DigestHexLen |-> (h \div Pow(16, DigestHexLen - i)) % 16]

\* sha256::digest / sha256::try_digest render the digest in lowercase hex
HexLower(nibbles) == [i \in 1..Len(nibbles) |-> HEXLOWER_DIGITS[nibbles[i] + 1]]

\* data_encoding::HEXUPPER renders it in uppercase hex
HexUpper(nibbles) == [i \in 1..Len(nibbles) |-> HEXUPPER_DIGITS[nibbles[i] + 1]]

sha256_digest_hex(bytes) == HexLower(Sha256(bytes))

(***************************************************************************)
(* The gzip stream (flate2::bufread::GzDecoder).  An archive is the magic  *)
(* header followed by the payload; anything else is not a gzip stream and  *)
(* reading it fails.  The decompressed content differs from the archive.   *)
(***************************************************************************)
IsGzip(bytes) == IsPrefix(GZIP_MAGIC, bytes)

GzDecoder(bytes) == SubSeq(bytes, Len(GZIP_MAGIC) + 1, Len(bytes))

(***************************************************************************)
(* Paths.  std::path::Path compares by components: repeated and trailing   *)
(* separators vanish.  (No name of the model holds "." so the components   *)
(* "." and ".." do not arise; no derived name starts with a separator.)    *)
(***************************************************************************)
RECURSIVE Components(_)
Components(s) ==
    IF s = <<>> THEN <<>>
    ELSE LET seps == {i \in 1..Len(s) : s[i] = "/"}
             cut == IF seps = {} THEN Len(s) + 1
                    ELSE CHOOSE i \in seps : \A j \in seps : i <= j
             head == SubSeq(s, 1, cut - 1)
             rest == Components(SubSeq(s, cut + 1, Len(s)))
         IN IF head = <<>> THEN rest ELSE <<head>> \o rest

Join(path, component) == Append(path, component)

Parent(path) == Front(path)

(***************************************************************************)
(* The filesystem under the current directory: the directories (a set of   *)
(* paths; the current directory is the empty path) and the regular files   *)
(* with their bytes.                                                       *)
(***************************************************************************)
EmptyFs == [dirs |-> {}, files |-> <<>>]

IsDir(f, path) == path = <<>> \/ path \in f.dirs

IsFile(f, path) == path \in DOMAIN f.files

\* Path::exists
Exists(f, path) == IsDir(f, path) \/ IsFile(f, path)

FilesUnder(f, root) == {p \in DOMAIN f.files : IsPrefix(root, p)}

DirsUnder(f, root) == {p \in f.dirs : IsPrefix(root, p)}

Restrict(fn, keep) == [p \in keep |-> fn[p]]

\* a faulty variant: only root and the files directly in it are removed
remove_dir_all_shallow(f, root) ==
    [dirs |-> f.dirs \ {root},
     files |-> Restrict(f.files,
                        {p \in DOMAIN f.files : ~(IsPrefix(root, p) /\ Len(p) = Len(root) + 1)})]

\* fs::remove_dir_all that succeeds: root and everything below it are gone
remove_dir_all(f, root) ==
    [dirs |-> f.dirs \ DirsUnder(f, root),
     files |-> Restrict(f.files, DOMAIN f.files \ FilesUnder(f, root))]

\* fs::remove_dir_all that fails part-way: the files of gone were unlinked
remove_dir_all_failed(f, gone) ==
    [f EXCEPT !.files = Restrict(f.files, DOMAIN f.files \ gone)]

\* fs::create_dir succeeds only on a new name in an existing directory
CanCreateDir(f, path) == ~Exists(f, path) /\ IsDir(f, Parent(path))

create_dir(f, path) == [f EXCEPT !.dirs = f.dirs \cup {path}]

\* fs::create_dir_all creates the missing ancestors too
Prefixes(path) == {SubSeq(path, 1, n) : n \in 1..Len(path)}

CanCreateDirAll(f, path) == \A p \in Prefixes(path) : ~IsFile(f, p)

create_dir_all(f, path) == [f EXCEPT !.dirs = f.dirs \cup Prefixes(path)]

(***************************************************************************)
(* fs::write and fs::copy create or truncate the destination and then      *)
(* write the bytes; neither is atomic.  The outcomes:                      *)
(*   "ok"       all bytes written;                                         *)
(*   "no_file"  the destination could not be opened: nothing changes;      *)
(*   "empty"    created or truncated, then the first write failed;         *)
(*   "partial"  the write failed after the first half of the bytes.        *)
(* A destination whose parent is no directory, or that is a directory,     *)
(* cannot be opened.                                                       *)
(***************************************************************************)
WriteOutcome == {"ok", "no_file", "empty", "partial"}

CanOpenForWrite(f, path) == IsDir(f, Parent(path)) /\ ~IsDir(f, path)

Put(f, path, bytes) ==
    [f EXCEPT !.files =
        [p \in DOMAIN f.files \cup {path} |->
            IF p = path THEN bytes ELSE f.files[p]]]

fs_write(f, path, bytes, io) ==
    IF io = "no_file" \/ ~CanOpenForWrite(f, path) THEN [fs |-> f, ok |-> FALSE]
    ELSE IF io = "empty" THEN [fs |-> Put(f, path, <<>>), ok |-> FALSE]
    ELSE IF io = "partial"
         THEN [fs |-> Put(f, path, SubSeq(bytes, 1, Len(bytes) \div 2)),
               ok |-> FALSE]
    ELSE [fs |-> Put(f, path, bytes), ok |-> TRUE]

(***************************************************************************)
(* Schema (src/src/oci/schema.rs).  The schema documents are fetched from  *)
(* the network and evaluated by valico: what they hold is the              *)
(* environment's.  The model keeps the keys of schema_json; the verdict of *)
(* compiling and evaluating a schema on a document is an input.            *)
(***************************************************************************)
SCHEMA_FILES ==
    << {"https://opencontainers.org/schema/image/content-descriptor.json"},
       {"https://opencontainers.org/schema/defs.json",
        "https://opencontainers.org/schema/descriptor/defs.json",
        "https://opencontainers.org/schema/image/defs.json",
        "https://opencontainers.org/schema/image/descriptor/defs.json",
        "https://opencontainers.org/schema/image/index/defs.json",
        "https://opencontainers.org/schema/image/manifest/defs.json"},
       {"https://opencontainers.org/schema/descriptor.json",
        "https://opencontainers.org/schema/defs-descriptor.json",
        "https://opencontainers.org/schema/descriptor/defs-descriptor.json",
        "https://opencontainers.org/schema/image/defs-descriptor.json",
        "https://opencontainers.org/schema/image/descriptor/defs-descriptor.json",
        "https://opencontainers.org/schema/image/index/defs-descriptor.json",
        "https://opencontainers.org/schema/image/manifest/defs-descriptor.json",
        "https://opencontainers.org/schema/index/defs-descriptor.json"},
       {IMAGE_CONFIG_SCHEMA_URI},
       {IMAGE_INDEX_SCHEMA_URI},
       {IMAGE_LAYOUT_SCHEMA_URI},
       {IMAGE_MANIFEST_SCHEMA_URI} >>

\* schema_json's keys once the first fetched of the schema files are loaded;
\* load_schemas stops at the first fetch that fails
load_schemas(fetched) == UNION {SCHEMA_FILES[i] : i \in 1..fetched}

ValidationOutcome == {"valid", "invalid", "compile_error"}

\* a faulty variant: the verdict of the evaluation is not looked at
validate_schema_any(schemas, schema_url, verdict) ==
    IF schema_url \notin schemas THEN "unknown schema url" ELSE "ok"

validate_schema(schemas, schema_url, verdict) ==
    IF schema_url \notin schemas THEN "unknown schema url"
    ELSE IF verdict = "compile_error" THEN "schema does not compile"
    ELSE IF verdict = "invalid" THEN "JSON schema validation failed"
    ELSE "ok"

(***************************************************************************)
(* Image (src/src/oci/image.rs).                                           *)
(***************************************************************************)
None == [some |-> FALSE, v |-> <<>>]

Some(x) == [some |-> TRUE, v |-> x]

\* a faulty variant: the file is named by the digest in uppercase hex
write_hash_upper_name(f, directory, hash, filename) ==
    LET json == to_string_pretty(hash)
        json_sha256 == sha256_digest_hex(json)
        path == Join(directory, IF filename.some THEN filename.v
                                ELSE HexUpper(Sha256(json)))
    IN [io \in WriteOutcome |->
           LET w == fs_write(f, path, json, io)
           IN [fs |-> w.fs, ok |-> w.ok, path |-> path,
               json_sha256 |-> json_sha256, len |-> Len(json)]]

\* a faulty variant: the length returned is that of the document without its layout
\* (the line breaks and the indentation of the pretty form)
write_hash_compact_len(f, directory, hash, filename) ==
    LET json == to_string_pretty(hash)
        json_sha256 == sha256_digest_hex(json)
        path == Join(directory, IF filename.some THEN filename.v ELSE json_sha256)
    IN [io \in WriteOutcome |->
           LET w == fs_write(f, path, json, io)
           IN [fs |-> w.fs, ok |-> w.ok, path |-> path,
               json_sha256 |-> json_sha256,
               len |-> Len(SelectSeq(json, LAMBDA c : c \notin {" ", "\n"}))]]

\* write_hash's result for each outcome of its fs::write
write_hash(f, directory, hash, filename) ==
    LET json == to_string_pretty(hash)
        json_sha256 == sha256_digest_hex(json)
        path == Join(directory, IF filename.some THEN filename.v ELSE json_sha256)
    IN [io \in WriteOutcome |->
           LET w == fs_write(f, path, json, io)
           IN [fs |-> w.fs, ok |-> w.ok, path |-> path,
               json_sha256 |-> json_sha256, len |-> Len(json)]]

\* a faulty variant: the archive is stored under the digest of its decompressed content
write_tar_gz_by_diff_id(f, upload_file, blobs_dir) ==
    LET digest == sha256_digest_hex(GzDecoder(upload_file))
        path == Join(blobs_dir, digest)
    IN [io \in WriteOutcome \cup {"read_error"} |->
           LET w == IF io = "read_error" THEN [fs |-> f, ok |-> FALSE]
                    ELSE fs_write(f, path, upload_file, io)
           IN [fs |-> w.fs, ok |-> w.ok, path |-> path, tar_gz_sha256 |-> digest]]

\* write_tar_gz's result for each outcome: sha256::try_digest reads the file
\* ("read_error" when it cannot), fs::copy then copies it under its digest
write_tar_gz(f, upload_file, blobs_dir) ==
    LET digest == sha256_digest_hex(upload_file)
        path == Join(blobs_dir, digest)
    IN [io \in WriteOutcome \cup {"read_error"} |->
           LET w == IF io = "read_error" THEN [fs |-> f, ok |-> FALSE]
                    ELSE fs_write(f, path, upload_file, io)
           IN [fs |-> w.fs, ok |-> w.ok, path |-> path, tar_gz_sha256 |-> digest]]

image_layout == JObj(<< <<K_imageLayoutVersion, JStr(LAYOUT_VERSION)>> >>)

image_config(arch, os, tar_sha256_hex) ==
    JObj(<< <<K_architecture, JStr(arch)>>,
            <<K_os, JStr(os)>>,
            <<K_rootfs,
              JObj(<< <<K_diff_ids, JArr(<<JStr(SHA256_PREFIX \o tar_sha256_hex)>>)>>,
                      <<K_type, JStr(ROOTFS_TYPE)>> >>)>> >>)

image_index(manifests, annotations) ==
    JObj(<< <<K_annotations, annotations>>,
            <<K_manifests, JArr(manifests)>>,
            <<K_schemaVersion, JNum(2)>> >>)

index_json(index_json_sha256, index_json_size, annotations) ==
    JObj(<< <<K_manifests,
              JArr(<< JObj(<< <<K_annotations, annotations>>,
                              <<K_digest, JStr(SHA256_PREFIX \o index_json_sha256)>>,
                              <<K_mediaType, JStr(MT_INDEX)>>,
                              <<K_size, JNum(index_json_size)>> >>) >>)>>,
            <<K_schemaVersion, JNum(2)>> >>)

(***************************************************************************)
(* Ghcr (src/src/ghcr.rs): the values upload_oci_image builds.             *)
(***************************************************************************)
\* str::replace of one character by another
replace(s, from, to) == [i \in 1..Len(s) |-> IF s[i] = from THEN to ELSE s[i]]

dir_name(image_name, ver) == replace(image_name, "/", "-") \o DIR_SEPARATOR \o ver

package_annotations(image_name, ver) ==
    JObj(<< <<A_package_type, JStr(GITHUB_PACKAGE_TYPE)>>,
            <<A_ref_name, JStr(ver)>>,
            <<A_title, JStr(image_name)>>,
            <<A_vendor, JStr(ORG)>>,
            <<A_version, JStr(ver)>> >>)

descriptor_annotations(ver) == JObj(<< <<A_ref_name, JStr(ver)>> >>)

image_manifest(config, layer_sha256, layer_size, image_name, ver) ==
    JObj(<< <<K_annotations, package_annotations(image_name, ver)>>,
            <<K_config,
              JObj(<< <<K_digest, JStr(SHA256_PREFIX \o config[1])>>,
                      <<K_mediaType, JStr(MT_CONFIG)>>,
                      <<K_size, JNum(config[2])>> >>)>>,
            <<K_layers,
              JArr(<< JObj(<< <<K_annotations,
                                JObj(<< <<A_title, JStr(TARGET_FILE)>> >>)>>,
                              <<K_digest, JStr(SHA256_PREFIX \o layer_sha256)>>,
                              <<K_mediaType, JStr(MT_LAYER)>>,
                              <<K_size, JNum(layer_size)>> >>) >>)>>,
            <<K_schemaVersion, JNum(2)>> >>)

manifests(manifest, ver) ==
    << JObj(<< <<K_annotations, descriptor_annotations(ver)>>,
               <<K_digest, JStr(SHA256_PREFIX \o manifest[1])>>,
               <<K_mediaType, JStr(MT_MANIFEST)>>,
               <<K_platform,
                 JObj(<< <<K_architecture, JStr(ARCH)>>, <<K_os, JStr(OS)>> >>)>>,
               <<K_size, JNum(manifest[2])>> >>) >>

\* the layout a wholly successful upload_oci_image leaves in filesystem f
upload_oci_image_ok(f, image_name, ver, upload_file) ==
    LET r == Components(dir_name(image_name, ver))
        b == Join(Join(r, BLOBS), SHA256_DIR)
        annotations == package_annotations(image_name, ver)
        w1 == write_hash(create_dir(remove_dir_all(f, r), r), r, image_layout,
                         Some(OCI_LAYOUT))["ok"]
        w2 == write_tar_gz(create_dir_all(w1.fs, b), upload_file, b)["ok"]
        w3 == write_hash(w2.fs, b,
                         image_config(ARCH, OS, HexUpper(Sha256(GzDecoder(upload_file)))),
                         None)["ok"]
        w4 == write_hash(w3.fs, b,
                         image_manifest(<<w3.json_sha256, w3.len>>, w2.tar_gz_sha256,
                                        Len(upload_file), image_name, ver),
                         None)["ok"]
        w5 == write_hash(w4.fs, b,
                         image_index(manifests(<<w4.json_sha256, w4.len>>, ver),
                                     annotations),
                         None)["ok"]
        w6 == write_hash(w5.fs, r,
                         index_json(w5.json_sha256, w5.len, descriptor_annotations(ver)),
                         Some(INDEX_JSON))["ok"]
    IN w6.fs

(***************************************************************************)
(* The inputs tried.                                                       *)
(***************************************************************************)
NameChars == {"a", "/"}

VersionChars == {"1", "/"}

Names == SeqsBetween(NameChars, 1, MaxNameLen)

Versions == SeqsBetween(VersionChars, 0, MaxVersionLen)

\* the bytes of target_file: two gzip archives and a file that is no archive
Archives == {GZIP_MAGIC \o <<"x">>, GZIP_MAGIC \o <<"y", "z">>, <<"t", "a", "r">>}

\* what the current directory may hold when an attempt starts: nothing, or
\* the layout an earlier, successful upload of a:"" left in ./a--
EarlierLayout == upload_oci_image_ok(EmptyFs, <<"a">>, <<>>, GZIP_MAGIC \o <<"x">>)

(***************************************************************************)
(* State.                                                                  *)
(***************************************************************************)
VARIABLES
    name,           \* upload_oci_image's arguments: the image name,
    version,        \*   the version,
    target,         \*   and the bytes of target_file
    pc,             \* the statement upload_oci_image is at
    result,         \* "running", or how it ended: "ok", "err", "panic"
    inspect,        \* how the skopeo inspect call ended
    fs,             \* the filesystem
    schema_json,    \* the keys of Schema::schema_json
    tar_gz_sha256,  \* the locals of upload_oci_image
    tar_gz_size,
    tar_sha256,
    out,            \* (digest, size) of the config, the manifest and the index
    fs0,            \* history: the filesystem when the attempt started
    accepted,       \* history: the documents the schema evaluation found valid
    rejected,       \* history: the documents it did not
    wrote,          \* history: what this attempt created or wrote, in order
    failures        \* history: the calls that failed in this attempt

vars ==
    <<name, version, target, pc, result, inspect, fs, schema_json, tar_gz_sha256,
      tar_gz_size, tar_sha256, out, fs0, accepted, rejected, wrote, failures>>

inputs == <<name, version, target, fs0>>

locals == <<tar_gz_sha256, tar_gz_size, tar_sha256, out>>

verdicts == <<accepted, rejected>>

\* lines 101-102 and 111-112 of ghcr.rs
root == Components(dir_name(name, version))

blobs == Join(Join(root, BLOBS), SHA256_DIR)

Init ==
    /\ name \in Names
    /\ version \in Versions
    /\ target \in Archives
    /\ fs \in {EmptyFs, EarlierLayout}
    /\ fs0 = fs
    /\ pc = "check_existence"
    /\ result = "running"
    /\ inspect = "pending"
    /\ schema_json = {}
    /\ tar_gz_sha256 = <<>>
    /\ tar_gz_size = 0
    /\ tar_sha256 = <<>>
    /\ out = [config_json |-> <<<<>>, 0>>, manifest_json |-> <<<<>>, 0>>,
              index_json |-> <<<<>>, 0>>]
    /\ accepted = {}
    /\ rejected = {}
    /\ wrote = <<>>
    /\ failures = {}

Goto(next) == pc' = next /\ result' = IF next = "returned" THEN "ok" ELSE result

Return(how) == pc' = "returned" /\ result' = how

\* the ? operator on an Err: the call failed and upload_oci_image returns it
Raise(call) == Return("err") /\ failures' = failures \cup {call}

(***************************************************************************)
(* ghcr.rs:99, Ghcr::check_existence.  Command::output fails when the      *)
(* process cannot be started (expect panics); otherwise the exit status    *)
(* tells: success when the image exists, failure when it does not or when  *)
(* the inspection itself failed (network, credentials).                    *)
(***************************************************************************)
InspectOutcome == {"spawn_error", "found", "not_found", "inspect_error"}

\* a faulty variant: an image that exists is not refused
check_existence_no_conflict ==
    /\ pc = "check_existence"
    /\ \E outcome \in InspectOutcome :
        /\ inspect' = outcome
        /\ IF outcome = "spawn_error"
           THEN /\ Return("panic")
                /\ failures' = failures \cup {<<"check_existence", "spawn">>}
           ELSE /\ Goto("remove_dir_all")
                /\ UNCHANGED failures
    /\ UNCHANGED <<inputs, locals, fs, schema_json, verdicts, wrote>>

check_existence ==
    /\ pc = "check_existence"
    /\ \E outcome \in InspectOutcome :
        /\ inspect' = outcome
        /\ CASE outcome = "spawn_error" ->
                    /\ Return("panic")
                    /\ failures' = failures \cup {<<"check_existence", "spawn">>}
             [] outcome = "found" ->
                    Raise(<<"check_existence", "package already exists">>)
             [] outcome = "inspect_error" ->
                    /\ Goto("remove_dir_all")
                    /\ failures' = failures \cup {<<"check_existence", "inspect">>}
             [] outcome = "not_found" ->
                    /\ Goto("remove_dir_all")
                    /\ UNCHANGED failures
    /\ UNCHANGED <<inputs, locals, fs, schema_json, verdicts, wrote>>

(***************************************************************************)
(* ghcr.rs:103-105: a root that exists is removed.  A removal that fails   *)
(* may have unlinked any of the files below root already.                  *)
(***************************************************************************)
remove_root ==
    /\ pc = "remove_dir_all"
    /\ IF ~Exists(fs, root)
       THEN Goto("create_dir") /\ UNCHANGED <<fs, failures>>
       ELSE \/ /\ IsDir(fs, root)
               /\ fs' = remove_dir_all(fs, root)
               /\ Goto("create_dir")
               /\ UNCHANGED failures
            \/ \E gone \in SUBSET FilesUnder(fs, root) :
                /\ fs' = remove_dir_all_failed(fs, gone)
                /\ Raise(<<"remove_dir_all", "io">>)
    /\ UNCHANGED <<inputs, locals, inspect, schema_json, verdicts, wrote>>

(***************************************************************************)
(* ghcr.rs:106: fs::create_dir(root).                                      *)
(***************************************************************************)
create_root ==
    /\ pc = "create_dir"
    /\ \/ /\ CanCreateDir(fs, root)
          /\ fs' = create_dir(fs, root)
          /\ wrote' = Append(wrote, [kind |-> "dir", path |-> root,
                                     document |-> JObj(<<>>), ok |-> TRUE])
          /\ Goto("load_schemas")
          /\ UNCHANGED failures
       \/ /\ UNCHANGED <<fs, wrote>>
          /\ Raise(<<"create_dir", "io">>)
    /\ UNCHANGED <<inputs, locals, inspect, schema_json, verdicts>>

(***************************************************************************)
(* ghcr.rs:108, Image::new: the schema files are fetched in order; the     *)
(* first fetch that fails ends the loading.                                *)
(***************************************************************************)
\* a faulty variant: a fetch that fails does not end the attempt
new_image_unchecked ==
    /\ pc = "load_schemas"
    /\ \E fetched \in 0..Len(SCHEMA_FILES) :
        /\ schema_json' = load_schemas(fetched)
        /\ Goto("write_image_layout")
        /\ failures' = IF fetched = Len(SCHEMA_FILES) THEN failures
                       ELSE failures \cup {<<"load_schemas", "fetch">>}
    /\ UNCHANGED <<inputs, locals, inspect, fs, verdicts, wrote>>

new_image ==
    /\ pc = "load_schemas"
    /\ \E fetched \in 0..Len(SCHEMA_FILES) :
        /\ schema_json' = load_schemas(fetched)
        /\ IF fetched = Len(SCHEMA_FILES)
           THEN Goto("write_image_layout") /\ UNCHANGED failures
           ELSE Raise(<<"load_schemas", "fetch">>)
    /\ UNCHANGED <<inputs, locals, inspect, fs, verdicts, wrote>>

(***************************************************************************)
(* A write_image_* method: validate_schema, then write_hash.  field names  *)
(* the local that receives write_hash's result, if any.                    *)
(***************************************************************************)
Conforms(schema_url, verdict) == schema_url \in schema_json /\ verdict = "valid"

validated_write(method, schema_url, document, directory, filename, field, next) ==
    \E written \in {write_hash(fs, directory, document, filename)} :
      \E verdict \in ValidationOutcome, io \in WriteOutcome :
        LET checked == validate_schema(schema_json, schema_url, verdict)
            w == written[io]
        IN /\ accepted' = IF Conforms(schema_url, verdict)
                          THEN accepted \cup {document} ELSE accepted
           /\ rejected' = IF Conforms(schema_url, verdict)
                          THEN rejected ELSE rejected \cup {document}
           /\ IF checked # "ok"
              THEN /\ Raise(<<method, "validate_schema">>)
                   /\ UNCHANGED <<fs, wrote, out>>
              ELSE /\ fs' = w.fs
                   /\ wrote' = Append(wrote, [kind |-> "json", path |-> w.path,
                                              document |-> document, ok |-> w.ok])
                   /\ IF w.ok
                      THEN /\ Goto(next)
                           /\ out' = IF field = "none" THEN out
                                     ELSE [out EXCEPT ![field] = <<w.json_sha256, w.len>>]
                           /\ UNCHANGED failures
                      ELSE /\ Raise(<<method, "write_hash">>)
                           /\ UNCHANGED out

\* ghcr.rs:109
write_image_layout ==
    /\ pc = "write_image_layout"
    /\ validated_write("write_image_layout", IMAGE_LAYOUT_SCHEMA_URI, image_layout,
                       root, Some(OCI_LAYOUT), "none", "create_dir_all")
    /\ UNCHANGED <<inputs, inspect, schema_json, tar_gz_sha256, tar_gz_size, tar_sha256>>

(***************************************************************************)
(* ghcr.rs:113: fs::create_dir_all(blobs); a failure may leave root/blobs. *)
(***************************************************************************)
\* a faulty variant: the result of fs::create_dir_all is dropped
create_blobs_unchecked ==
    /\ pc = "create_dir_all"
    /\ \/ /\ CanCreateDirAll(fs, blobs)
          /\ fs' = create_dir_all(fs, blobs)
          /\ UNCHANGED failures
       \/ /\ fs' \in {fs, create_dir_all(fs, Parent(blobs))}
          /\ failures' = failures \cup {<<"create_dir_all", "io">>}
    /\ Goto("write_tar_gz")
    /\ UNCHANGED <<inputs, locals, inspect, schema_json, verdicts, wrote>>

create_blobs ==
    /\ pc = "create_dir_all"
    /\ \/ /\ CanCreateDirAll(fs, blobs)
          /\ fs' = create_dir_all(fs, blobs)
          /\ Goto("write_tar_gz")
          /\ UNCHANGED failures
       \/ /\ fs' \in {fs, create_dir_all(fs, Parent(blobs))}
          /\ Raise(<<"create_dir_all", "io">>)
    /\ UNCHANGED <<inputs, locals, inspect, schema_json, verdicts, wrote>>

(***************************************************************************)
(* ghcr.rs:152: Image::write_tar_gz(target_file, blobs).                   *)
(***************************************************************************)
copy_tar_gz ==
    /\ pc = "write_tar_gz"
    /\ \E io \in WriteOutcome \cup {"read_error"} :
        LET w == write_tar_gz(fs, target, blobs)[io]
        IN /\ fs' = w.fs
           /\ wrote' = IF io = "read_error" THEN wrote
                       ELSE Append(wrote, [kind |-> "raw", path |-> w.path,
                                           document |-> JObj(<<>>), ok |-> w.ok])
           /\ IF w.ok
              THEN /\ tar_gz_sha256' = w.tar_gz_sha256
                   /\ Goto("sha256_digest")
                   /\ UNCHANGED failures
              ELSE /\ Raise(<<"write_tar_gz", "io">>)
                   /\ UNCHANGED tar_gz_sha256
    /\ UNCHANGED <<inputs, inspect, schema_json, tar_gz_size, tar_sha256, out, verdicts>>

(***************************************************************************)
(* ghcr.rs:158-161: the size of target_file and the SHA-256 of its         *)
(* decompressed content (Ghcr::sha256_digest).                             *)
(***************************************************************************)
digest_tar ==
    /\ pc = "sha256_digest"
    /\ \/ /\ IsGzip(target)
          /\ tar_gz_size' = Len(target)
          /\ tar_sha256' = Sha256(GzDecoder(target))
          /\ Goto("write_image_config")
          /\ UNCHANGED failures
       \/ /\ Raise(<<"sha256_digest", IF IsGzip(target) THEN "io" ELSE "not gzip">>)
          /\ UNCHANGED <<tar_gz_size, tar_sha256>>
    /\ UNCHANGED <<inputs, inspect, fs, schema_json, tar_gz_sha256, out, verdicts, wrote>>

\* ghcr.rs:164-165: the diff id is rendered with HEXUPPER
write_image_config ==
    /\ pc = "write_image_config"
    /\ validated_write("write_image_config", IMAGE_CONFIG_SCHEMA_URI,
                       image_config(ARCH, OS, HexUpper(tar_sha256)),
                       blobs, None, "config_json", "write_image_manifest")
    /\ UNCHANGED <<inputs, inspect, schema_json, tar_gz_sha256, tar_gz_size, tar_sha256>>

\* ghcr.rs:173-192; target_file.to_str().unwrap() panics on a path that is
\* not UTF-8
write_image_manifest ==
    /\ pc = "write_image_manifest"
    /\ \/ /\ Return("panic")
          /\ UNCHANGED <<fs, out, verdicts, wrote, failures>>
       \/ validated_write("write_image_manifest", IMAGE_MANIFEST_SCHEMA_URI,
                          image_manifest(out.config_json, tar_gz_sha256, tar_gz_size,
                                         name, version),
                          blobs, None, "manifest_json", "write_image_index")
    /\ UNCHANGED <<inputs, inspect, schema_json, tar_gz_sha256, tar_gz_size, tar_sha256>>

\* ghcr.rs:195-207
write_image_index ==
    /\ pc = "write_image_index"
    /\ validated_write("write_image_index", IMAGE_INDEX_SCHEMA_URI,
                       image_index(manifests(out.manifest_json, version),
                                   package_annotations(name, version)),
                       blobs, None, "index_json", "write_index_json")
    /\ UNCHANGED <<inputs, inspect, schema_json, tar_gz_sha256, tar_gz_size, tar_sha256>>

\* ghcr.rs:211-224
write_index_json ==
    /\ pc = "write_index_json"
    /\ validated_write("write_index_json", IMAGE_INDEX_SCHEMA_URI,
                       index_json(out.index_json[1], out.index_json[2],
                                  descriptor_annotations(version)),
                       root, Some(INDEX_JSON), "none", "returned")
    /\ UNCHANGED <<inputs, inspect, schema_json, tar_gz_sha256, tar_gz_size, tar_sha256>>

Next ==
    \/ check_existence
    \/ remove_root
    \/ create_root
    \/ new_image
    \/ write_image_layout
    \/ create_blobs
    \/ copy_tar_gz
    \/ digest_tar
    \/ write_image_config
    \/ write_image_manifest
    \/ write_image_index
    \/ write_index_json

Spec == Init /\ [][Next]_vars

(***************************************************************************)
(* Vocabulary of the properties.                                           *)
(***************************************************************************)
Events == Range(wrote)

JsonEvents == {e \in Events : e.kind = "json"}

OciLayoutPath == Join(root, OCI_LAYOUT)

IndexJsonPath == Join(root, INDEX_JSON)

\* where a consumer of the layout looks for the blob a digest names
BlobPath(digest) ==
    Join(blobs, SubSeq(digest, Len(SHA256_PREFIX) + 1, Len(digest)))

\* the file at path holds the serialization of document
Holds(path, document) ==
    IsFile(fs, path) /\ fs.files[path] = to_string_pretty(document)

WroteOk(kind, path) == \E e \in Events : e.kind = kind /\ e.path = path /\ e.ok

\* the bytes a write was given
Content(e) == IF e.kind = "raw" THEN target ELSE to_string_pretty(e.document)

\* every digest string a document embeds: each "digest" member, each diff id
RECURSIVE Digests(_)
Digests(value) ==
    CASE value.t = "obj" ->
            UNION {LET key == value.v[i][1]
                       member == value.v[i][2]
                   IN IF key = K_digest THEN {member.v}
                      ELSE IF key = K_diff_ids
                           THEN {member.v[j].v : j \in 1..Len(member.v)}
                      ELSE Digests(member) : i \in 1..Len(value.v)}
      [] value.t = "arr" -> UNION {Digests(value.v[i]) : i \in 1..Len(value.v)}
      [] OTHER -> {}

\* every descriptor a document embeds: each object with a digest and a size
RECURSIVE Descriptors(_)
Descriptors(value) ==
    CASE value.t = "obj" ->
            (IF HasField(value, K_digest) /\ HasField(value, K_size)
             THEN {value} ELSE {})
            \cup UNION {Descriptors(value.v[i][2]) : i \in 1..Len(value.v)}
      [] value.t = "arr" -> UNION {Descriptors(value.v[i]) : i \in 1..Len(value.v)}
      [] OTHER -> {}

LowerHex == Range(HEXLOWER_DIGITS)

IsSha256LowerHex(digest) ==
    /\ IsPrefix(SHA256_PREFIX, digest)
    /\ Len(digest) > Len(SHA256_PREFIX)
    /\ \A i \in (Len(SHA256_PREFIX) + 1)..Len(digest) : digest[i] \in LowerHex

ContentAddressed(path) == Last(path) = sha256_digest_hex(fs.files[path])

\* this attempt created its working directory
Recreated == \E e \in Events : e.kind = "dir"

FetchFailed == <<"load_schemas", "fetch">> \in failures

Failed == pc = "returned" /\ result = "err"

(***************************************************************************)
(* C1.  Conflict detection: when the inspect call exits successfully,      *)
(* upload_oci_image returns an error, and the run has changed nothing in   *)
(* the filesystem (the working directory is neither removed, created nor   *)
(* written to), loaded no schema and written no file.                      *)
(***************************************************************************)
C1_ConflictLeavesEverything ==
    inspect = "found" =>
        /\ Failed
        /\ fs = fs0
        /\ schema_json = {}
        /\ wrote = <<>>
        /\ accepted = {} /\ rejected = {}

\* a conflict on a name whose working directory an earlier upload left
C1_ConflictOverEarlierLayout ==
    inspect = "found" /\ Failed /\ IsDir(fs0, root) /\ IsFile(fs, IndexJsonPath)

(***************************************************************************)
(* C2.  Validation gate: a document is handed to write_hash only after the *)
(* schema evaluation accepted that very document; a rejected document ends *)
(* the run with an error at that step, and neither the root nor            *)
(* blobs/sha256 ever holds it.                                             *)
(***************************************************************************)
C2_ValidationGate ==
    /\ \A e \in JsonEvents : e.document \in accepted
    /\ rejected # {} =>
        /\ Failed
        /\ \A d \in rejected :
            /\ \A e \in Events : e.document # d
            /\ \A p \in FilesUnder(fs, root) : fs.files[p] # to_string_pretty(d)

\* a document was rejected after earlier documents had been written
C2_RejectedAfterWrites ==
    /\ rejected # {}
    /\ \E e \in JsonEvents : e.ok /\ IsPrefix(blobs, e.path)

(***************************************************************************)
(* C3.  Digest form: every digest a written document embeds is "sha256:"   *)
(* followed by lowercase hex, and every blob file name is bare lowercase   *)
(* hex.                                                                    *)
(***************************************************************************)
C3_DigestForm ==
    /\ \A e \in JsonEvents : \A d \in Digests(e.document) : IsSha256LowerHex(d)
    /\ \A p \in FilesUnder(fs, blobs) : Range(Last(p)) \subseteq LowerHex

(***************************************************************************)
(* C4.  Round trip: after a successful upload, index.json's manifests[0]   *)
(* digest names a blob holding the image index, whose manifests[0] digest  *)
(* names a blob holding the manifest, whose config digest and layers[0]    *)
(* digest both name blobs.                                                 *)
(***************************************************************************)
Digest(descriptor) == Field(descriptor, K_digest).v

C4_RoundTrip ==
    result = "ok" =>
        \E top \in {e.document : e \in JsonEvents} :
            /\ Holds(IndexJsonPath, top)
            /\ HasField(top, K_manifests)
            /\ \E index \in {e.document : e \in JsonEvents} :
                /\ Holds(BlobPath(Digest(Field(top, K_manifests).v[1])), index)
                /\ HasField(index, K_manifests)
                /\ \E manifest \in {e.document : e \in JsonEvents} :
                    /\ Holds(BlobPath(Digest(Field(index, K_manifests).v[1])),
                             manifest)
                    /\ HasField(manifest, K_config)
                    /\ HasField(manifest, K_layers)
                    /\ IsFile(fs, BlobPath(Digest(Field(manifest, K_config))))
                    /\ IsFile(fs, BlobPath(Digest(Field(manifest, K_layers).v[1])))

\* a successful upload: the layer and the three documents are in the store
C4_UploadSucceeded ==
    result = "ok" /\ Cardinality(FilesUnder(fs, blobs)) = 4

(***************************************************************************)
(* C5.  Error propagation.  As claimed: whenever any call of the attempt   *)
(* fails (the registry-client call included), upload_oci_image stops       *)
(* without success and goes on to no later step.  (A panic is counted as   *)
(* stopping here, so that what refutes the claim is a failure that is      *)
(* passed over.)                                                           *)
(***************************************************************************)
C5_EveryFailureStops == failures # {} => pc = "returned" /\ result # "ok"

(***************************************************************************)
(* C5, amended.  Every failure after the existence check (directory        *)
(* removal or creation, schema fetch, schema validation, archive read or   *)
(* copy, blob write) ends the attempt with an error, and no attempt that   *)
(* met one returns success.  The existence check is the exception: an      *)
(* inspect call that fails is taken for an absent image and the attempt    *)
(* goes on; one that cannot be started panics.                             *)
(***************************************************************************)
C5_FailuresAfterInspectReturned ==
    /\ \A f \in failures : f[1] # "check_existence" => Failed
    /\ result = "ok" => failures \subseteq {<<"check_existence", "inspect">>}
    /\ inspect = "found" => Failed
    /\ inspect = "spawn_error" => pc = "returned" /\ result = "panic"

\* a blob write failed in the middle of the build
C5_ManifestWriteFailed ==
    <<"write_image_manifest", "write_hash">> \in failures /\ Failed

(***************************************************************************)
(* C6.  Sanitization: for an image name that holds a path separator, and   *)
(* any version, the working directory is one directory directly under the  *)
(* current directory: its derived name holds no separator and no traversal *)
(* component.                                                              *)
(***************************************************************************)
C6_SanitizedDirName ==
    ("/" \in Range(name) /\ inspect \in {"not_found", "inspect_error"}) =>
        /\ "/" \notin Range(dir_name(name, version))
        /\ Len(root) = 1
        /\ root[1] \notin {<<".">>, <<".", ".">>}

(***************************************************************************)
(* C7.  Schema fetch failure.  As claimed: the upload aborts before any    *)
(* document is validated and the run performs no filesystem mutation.      *)
(***************************************************************************)
C7_FetchFailureNoMutation ==
    FetchFailed =>
        /\ Failed
        /\ accepted = {} /\ rejected = {}
        /\ \A e \in Events : e.kind = "dir"
        /\ fs = fs0

(***************************************************************************)
(* C7, amended.  When a schema fetch fails, the upload aborts with an      *)
(* error before any document is validated and before any file is written:  *)
(* no oci-layout, no index.json, no blob.  The working directory, though,  *)
(* has already been removed (with all an earlier attempt left in it) and   *)
(* created again, empty: that is the run's one filesystem mutation.        *)
(***************************************************************************)
C7_FetchFailureWritesNoFile ==
    FetchFailed =>
        /\ Failed
        /\ accepted = {} /\ rejected = {}
        /\ \A e \in Events : e.kind = "dir"
        /\ FilesUnder(fs, root) = {}
        /\ fs = create_dir(remove_dir_all(fs0, root), root)

\* the fetch failed after an earlier layout had been removed
C7_FetchFailedOverEarlierLayout ==
    FetchFailed /\ FilesUnder(fs0, root) # {} /\ fs # fs0

(***************************************************************************)
(* C8.  Size correctness: after a successful upload, the size of every     *)
(* descriptor in a written document is the byte length of the file at the  *)
(* descriptor's digest path, and the sizes write_hash returned are those.  *)
(***************************************************************************)
C8_SizeCorrect ==
    result = "ok" =>
        /\ \A e \in JsonEvents : \A d \in Descriptors(e.document) :
            /\ IsFile(fs, BlobPath(Digest(d)))
            /\ Field(d, K_size).v = Len(fs.files[BlobPath(Digest(d))])
        /\ \A field \in DOMAIN out :
            out[field][2] = Len(fs.files[Join(blobs, out[field][1])])
        /\ tar_gz_size = Len(fs.files[Join(blobs, tar_gz_sha256)])

\* a successful upload whose manifest carries the archive's length
C8_LayerSizeRecorded ==
    /\ result = "ok"
    /\ \E e \in JsonEvents : \E d \in Descriptors(e.document) :
        Field(d, K_mediaType).v = MT_LAYER /\ Field(d, K_size).v = Len(target)

(***************************************************************************)
(* C9.  Content addressing.  As claimed: in every state of a build (the    *)
(* working directory has been created), every file under blobs/sha256 is   *)
(* named by the digest of its own bytes, the digest returned to the caller *)
(* is that name, and nothing is written outside blobs/sha256 but           *)
(* oci-layout and index.json.                                              *)
(***************************************************************************)
ReturnedDigestsAreNames ==
    /\ tar_gz_sha256 # <<>> => WroteOk("raw", Join(blobs, tar_gz_sha256))
    /\ \A field \in DOMAIN out :
        out[field][1] # <<>> => WroteOk("json", Join(blobs, out[field][1]))

OnlyNamedFilesOutsideBlobs ==
    \A e \in Events :
        e.kind # "dir" =>
            IsPrefix(blobs, e.path) \/ e.path \in {OciLayoutPath, IndexJsonPath}

C9_ContentAddressedAlways ==
    /\ Recreated => \A p \in FilesUnder(fs, blobs) : ContentAddressed(p)
    /\ ReturnedDigestsAreNames
    /\ OnlyNamedFilesOutsideBlobs

(***************************************************************************)
(* C9, amended.  In every state of a build, every file under blobs/sha256  *)
(* whose write succeeded is named by the digest of its own bytes, and the  *)
(* digest returned is that name; a write that fails may leave, under the   *)
(* digest of the whole content, a file cut short (empty, or a proper       *)
(* prefix of the content), and no other file is there.  Nothing is written *)
(* outside blobs/sha256 but oci-layout and index.json.                     *)
(***************************************************************************)
CutShort(path) ==
    \E e \in Events :
        /\ e.path = path /\ ~e.ok
        /\ IsPrefix(fs.files[path], Content(e))
        /\ fs.files[path] # Content(e)

C9_ContentAddressedUnlessCutShort ==
    /\ Recreated =>
        \A p \in FilesUnder(fs, blobs) : ContentAddressed(p) \/ CutShort(p)
    /\ \A e \in Events :
        (e.kind # "dir" /\ e.ok /\ IsPrefix(blobs, e.path)) =>
            IsFile(fs, e.path) /\ ContentAddressed(e.path)
    /\ ReturnedDigestsAreNames
    /\ OnlyNamedFilesOutsideBlobs

\* a failed write left a blob cut short
C9_BlobCutShort ==
    /\ Recreated
    /\ \E p \in FilesUnder(fs, blobs) : CutShort(p) /\ ~ContentAddressed(p)
    /\ \E p \in FilesUnder(fs, blobs) : WroteOk("raw", p) /\ ContentAddressed(p)

(***************************************************************************)
(* C10.  No partial layout claims success.  As claimed: in every state of  *)
(* an attempt past its start (the working directory has been created, or   *)
(* the attempt is over), index.json exists only if oci-layout, the layer,  *)
(* the config, the manifest and the index were all written by this         *)
(* attempt; an attempt that fails before the last step leaves no           *)
(* index.json and no file of an earlier attempt.                           *)
(***************************************************************************)
AllWrittenByThisAttempt ==
    /\ WroteOk("json", OciLayoutPath)
    /\ tar_gz_sha256 # <<>> /\ WroteOk("raw", Join(blobs, tar_gz_sha256))
    /\ \A field \in DOMAIN out :
        out[field][1] # <<>> /\ WroteOk("json", Join(blobs, out[field][1]))

FailedBeforeLastStep ==
    /\ pc = "returned" /\ result # "ok"
    /\ \A f \in failures : f[1] # "write_index_json"

NoPartialLayout ==
    /\ IsFile(fs, IndexJsonPath) => AllWrittenByThisAttempt
    /\ FailedBeforeLastStep =>
        /\ ~IsFile(fs, IndexJsonPath)
        /\ \A p \in FilesUnder(fs, root) : \E e \in Events : e.path = p

====
